---- MODULE Spec2Model ----
(***************************************************************************)
(* Model of the code-splitter pipeline (armchr/armchr, code-splitter-agent) *)
(*                                                                         *)
(*   phase2_graph.py      DependencyGraph                                  *)
(*   phase4_splitting.py  PatchSplitter                                    *)
(*   phase5_validation.py PatchValidator                                   *)
(*   phase1_analysis.py   DiffParser                                       *)
(*   agent.py             CodeSplitterAgent (split_changes, export,        *)
(*                        hunk-integrity check)                            *)
(*                                                                         *)
(* Numbers that are floats in the source are kept as integers:             *)
(* a dependency strength s is held as 100*s, and a comparison with a       *)
(* fractional factor (x > y * 1.5) is stated on both sides times the       *)
(* denominator (2*x > 3*y).                                                *)
(***************************************************************************)
EXTENDS Integers, Sequences, FiniteSets, TLC

VARIABLES
    pc,                 \* position of the run inside split_changes / export
    run,                \* 1 for the first run on the input, 2 for the repeated run
    changes,            \* List[Change]             (split_changes: changes)
    dependencies,       \* DependencyGraph.dependencies
    semantic_groups,    \* List[SemanticGroup]
    target_patch_size,  \* split_changes argument
    max_patches,        \* split_changes argument: << >> is None, << n >> the limit n
    atomic_groups,      \* List[AtomicGroup]        (find_atomic_groups)
    patch_candidates,   \* split_into_patches: patch_candidates, then merged_patches
    patches,            \* List[Patch]
    sort_path,          \* which path _sort_patches_topologically took
    warnings,           \* PatchSplitResult.warnings
    first_patches,      \* the patches returned by the first run on this input
    diff_text,          \* the input diff, as the blocks of its files
    patch_files,        \* the patch files export_patches_to_files wrote
    integrity,          \* what _verify_hunk_integrity found
    llm_analysis,       \* what llm_client.analyze_dependencies does when it is called
    cancel,             \* the caller has asked for the run to be cancelled
    topological_order,  \* what DependencyGraph.topological_sort returned
    unidiff_fails,      \* PatchSet(diff_text) raises, parse_diff takes the fallback
    patch_split_dir,    \* resplit_patch: the patch files of the directory, by file name
    metadata            \* resplit_patch: metadata['patches'] of the directory

vars == << pc, run, changes, dependencies, semantic_groups, target_patch_size,
           max_patches, atomic_groups, patch_candidates, patches, sort_path,
           warnings, first_patches, diff_text, patch_files, integrity,
           llm_analysis, cancel, topological_order, unidiff_fails, patch_split_dir,
           metadata >>

-----------------------------------------------------------------------------
(* Bounds of the model *)

NumChanges == 5         \* number of Changes of the input
MaxFiles == 2           \* most files of an input diff
MaxHunks == 2           \* most hunks of a file of an input diff

-----------------------------------------------------------------------------
(* Sequences and sets *)

None == "None"

Range(s) == { s[i] : i \in DOMAIN s }

Min(S) == CHOOSE x \in S : \A y \in S : x <= y

Max(S) == CHOOSE x \in S : \A y \in S : x >= y

\* every list that holds the members of S once: list(a_set), in some order
RECURSIVE Orderings(_)
Orderings(S) ==
    IF S = {} THEN { << >> }
    ELSE UNION { { <<x>> \o p : p \in Orderings(S \ {x}) } : x \in S }

RECURSIVE SumSeq(_)
SumSeq(s) == IF s = << >> THEN 0 ELSE Head(s) + SumSeq(Tail(s))

RECURSIVE Flatten(_)
Flatten(ss) == IF ss = << >> THEN << >> ELSE Head(ss) \o Flatten(Tail(ss))

\* the members of a set of integers, ascending
RECURSIVE Ascending(_)
Ascending(S) == IF S = {} THEN << >> ELSE <<Min(S)>> \o Ascending(S \ {Min(S)})

\* position of x in the list s (x occurs in s)
IndexOf(s, x) == Min({ i \in DOMAIN s : s[i] = x })

-----------------------------------------------------------------------------
(* Directed graphs: a set of nodes and a set of edges <<u, v>> (nx.DiGraph) *)

Successors(E, u) == { e[2] : e \in { x \in E : x[1] = u } }

Predecessors(E, v) == { e[1] : e \in { x \in E : x[2] = v } }

RECURSIVE Closure(_, _)
Closure(E, S) ==
    LET T == S \cup UNION { Successors(E, u) : u \in S }
    IN  IF T = S THEN S ELSE Closure(E, T)

\* nx.has_path: a node has a path to itself
HasPath(E, u, v) == v \in Closure(E, {u})

\* nx.strongly_connected_components, as a set of node sets
StronglyConnectedComponents(N, E) ==
    { { v \in N : HasPath(E, u, v) /\ HasPath(E, v, u) } : u \in N }

-----------------------------------------------------------------------------
(* Inputs: the Changes, dependencies and semantic groups a run is given *)

\* file paths, as their '/'-separated segments
FilePool ==
    << <<"app", "core", "a.py">>,
       <<"app", "core", "b.py">>,
       <<"app", "svc", "c.py">>,
       <<"app", "types", "t.py">>,
       <<"app", "api", "h.py">>,
       <<"app", "utils", "u.py">>,
       <<"main.py">> >>

FileOfIndex(i) == FilePool[((i - 1) % Len(FilePool)) + 1]

\* changed lines of a small and of a large hunk
LineCounts == [small |-> 10, large |-> 600]

\* models.Change; every third change carries one symbol
MakeChange(i, type, large) ==
    LET n == IF i = large THEN LineCounts.large ELSE LineCounts.small
        d == IF type = "add" THEN 0 ELSE IF type = "delete" THEN n ELSE 1
    IN  [ id            |-> i,
          file          |-> FileOfIndex(i),
          type          |-> type,
          symbols       |-> IF i % 3 = 1 THEN << <<"sym", i>> >> ELSE << >>,
          added_lines   |-> n - d,
          deleted_lines |-> d ]

\* models.Dependency: source depends on target; strength 100 is 1.0
Dep(s, t, w) == [source |-> s, target |-> t, strength |-> w]

DepPool ==
    { Dep(1, 2, 80), Dep(2, 1, 80), Dep(3, 4, 100), Dep(4, 3, 100),
      Dep(4, 5, 80), Dep(5, 3, 80), Dep(4, 3, 80) }

\* models.SemanticGroup
SemGroup(k, ids) == [id |-> <<"sem", k>>, change_ids |-> ids]

\* the lists of semantic groups of the inputs, as the change ids of each group
SemChoices == { << >>, << {1, 3} >>, << {1, 3}, {5} >>, << {1, 3}, {2, 4} >> }

ChangeTypes == {"add", "modify"}

LargeChoices == {0, 4}

TargetSizes == {100}

MaxPatchesChoices == { << 2 >> }

InputChanges == { [i \in 1..NumChanges |-> MakeChange(i, ty, lg)] :
                    ty \in ChangeTypes, lg \in LargeChoices }

\* a set of dependencies of the pool, one dependency at most for a pair
InputDependencies ==
    { D \in SUBSET { d \in DepPool : d.source <= NumChanges /\ d.target <= NumChanges } :
        \A d1, d2 \in D : (d1.source = d2.source /\ d1.target = d2.target) => d1 = d2 }

InputSemanticGroups ==
    { [i \in DOMAIN c |-> SemGroup(i, { x \in c[i] : x <= NumChanges })] : c \in SemChoices }

-----------------------------------------------------------------------------
(* phase2_graph.py: DependencyGraph *)

ChangeIds == { changes[i].id : i \in DOMAIN changes }

\* change_map / DependencyGraph.changes: the last Change of an id wins
ChangeOf(id) ==
    changes[Max({ i \in DOMAIN changes : changes[i].id = id })]

ChangeSize(id) == ChangeOf(id).added_lines + ChangeOf(id).deleted_lines

RECURSIVE SizeOfSet(_)
SizeOfSet(S) ==
    IF S = {} THEN 0
    ELSE LET x == CHOOSE y \in S : TRUE IN ChangeSize(x) + SizeOfSet(S \ {x})

\* add_changes, add_dependencies: add_edge also adds the end points as nodes
GraphEdges == { <<d.source, d.target>> : d \in dependencies }

GraphNodes == ChangeIds \cup { e[1] : e \in GraphEdges } \cup { e[2] : e \in GraphEdges }

\* find_strongly_connected_components: the components of more than one node
find_strongly_connected_components ==
    { c \in StronglyConnectedComponents(GraphNodes, GraphEdges) : Cardinality(c) > 1 }

\* _find_strong_dependency_groups: components of the strength >= 1.0 subgraph
StrongEdges == { <<d.source, d.target>> : d \in { x \in dependencies : x.strength >= 100 } }

StrongNodes == ChangeIds \cup { e[1] : e \in StrongEdges } \cup { e[2] : e \in StrongEdges }

\* _find_strong_dependency_groups with the connected components of the undirected
\* strong graph in the place of the strongly connected components
find_strong_dependency_groups_undirected ==
    { c \in StronglyConnectedComponents(StrongNodes,
                StrongEdges \cup { << e[2], e[1] >> : e \in StrongEdges }) :
        Cardinality(c) > 1 }

find_strong_dependency_groups ==
    { c \in StronglyConnectedComponents(StrongNodes, StrongEdges) : Cardinality(c) > 1 }

\* get_dependencies_for_change: the predecessors of the node in the graph
get_dependencies_for_change(id) ==
    IF id \notin GraphNodes THEN {} ELSE Predecessors(GraphEdges, id)

\* can_changes_be_separated without the loop over the strength >= 1.0
\* dependencies: only the two has_path tests
can_changes_be_separated_paths_only(id1, id2) ==
    IF id1 \notin GraphNodes \/ id2 \notin GraphNodes THEN TRUE
    ELSE IF HasPath(GraphEdges, id1, id2) /\ HasPath(GraphEdges, id2, id1) THEN FALSE
    ELSE TRUE

\* can_changes_be_separated
can_changes_be_separated(id1, id2) ==
    IF id1 \notin GraphNodes \/ id2 \notin GraphNodes THEN TRUE
    ELSE IF HasPath(GraphEdges, id1, id2) /\ HasPath(GraphEdges, id2, id1) THEN FALSE
    ELSE IF \E d \in dependencies :
                /\ d.strength >= 100
                /\ \/ (d.source = id1 /\ d.target = id2)
                   \/ (d.source = id2 /\ d.target = id1)
         THEN FALSE
    ELSE TRUE

MAX_ATOMIC_GROUP_SIZE == 500

AtomicGroup(id, ids, reason) == [id |-> id, change_ids |-> ids, reason |-> reason]

\* _calculate_group_size
calculate_group_size(ids) == SizeOfSet(ids \cap ChangeIds)

\* parent directory of a file, 'root' for a file without one
SubPackage(file) ==
    IF Len(file) >= 2 THEN SubSeq(file, 1, Len(file) - 1) ELSE <<"root">>

\* '/seg/' in path: seg is a directory of the path below its first segment
HasDir(file, segs) == \E i \in 2..(Len(file) - 1) : file[i] \in segs

\* 'name' in path, for the patterns that are file names
HasName(file, names) == file[Len(file)] \in names

\* _group_by_subpackage: the buckets, keyed by directory
group_by_subpackage(ids) ==
    LET known == ids \cap ChangeIds
        dirs  == { SubPackage(ChangeOf(c).file) : c \in known }
    IN  [ d \in dirs |-> { c \in known : SubPackage(ChangeOf(c).file) = d } ]

\* _split_by_file_type
IsInterfaceFile2(file) ==
    \/ HasDir(file, {"model", "models", "types", "interfaces"})
    \/ HasName(file, {"interface.go", "types.go", "model.go", "models.go"})

split_by_file_type(ids) ==
    LET known == ids \cap ChangeIds
    IN  << { c \in known : IsInterfaceFile2(ChangeOf(c).file) },
           { c \in known : ~IsInterfaceFile2(ChangeOf(c).file) } >>

\* _split_large_atomic_group: every list it can return; the buckets come in the
\* order in which the directories appear in list(scc), which is any order
split_large_atomic_group(group) ==
    IF Cardinality(group.change_ids) <= 2 THEN { <<group>> }
    ELSE
      LET buckets == group_by_subpackage(group.change_ids)
          ft      == split_by_file_type(group.change_ids)
      IN  IF Cardinality(DOMAIN buckets) > 1
          THEN { [ i \in DOMAIN o |->
                     AtomicGroup(group.id \o <<"subpkg", i - 1>>, buckets[o[i]],
                                 <<"Sub-package group", o[i]>>) ] :
                   o \in Orderings(DOMAIN buckets) }
          ELSE IF ft[1] # {} /\ ft[2] # {}
          THEN { << AtomicGroup(group.id \o <<"interfaces">>, ft[1],
                                <<"Interface and model definitions">>),
                    AtomicGroup(group.id \o <<"impl">>, ft[2],
                                <<"Implementation files">>) >> }
          ELSE { <<group>> }

\* find_atomic_groups, step 3: oversized groups are replaced by their subgroups
RECURSIVE SplitOversized(_)
SplitOversized(groups) ==
    IF groups = << >> THEN { << >> }
    ELSE
      LET g    == Head(groups)
          subs == IF calculate_group_size(g.change_ids) > MAX_ATOMIC_GROUP_SIZE
                  THEN { IF Len(s) > 1 THEN s ELSE <<g>> : s \in split_large_atomic_group(g) }
                  ELSE { <<g>> }
      IN  { h \o t : h \in subs, t \in SplitOversized(Tail(groups)) }

\* find_atomic_groups: every list it can return; networkx yields the components
\* in an order of its own
find_atomic_groups ==
    UNION {
      SplitOversized(
        [ i \in DOMAIN so |->
            AtomicGroup(<<"scc", i - 1>>, so[i],
                        <<"Circular dependency - changes must stay together">>) ]
        \o
        [ i \in DOMAIN st |->
            AtomicGroup(<<"strong", i - 1>>, st[i],
                        <<"Critical dependencies - must not be split">>) ] ) :
      so \in Orderings(find_strongly_connected_components),
      st \in Orderings(find_strong_dependency_groups) }

-----------------------------------------------------------------------------
(* phase4_splitting.py: PatchSplitter, candidates and merging *)

\* a patch candidate of split_into_patches (its name and description are never
\* read again and are left out)
Candidate(ids, size, atomic) == [change_ids |-> ids, size |-> size, atomic |-> atomic]

INTERFACE_DIRS == {"model", "models", "types", "interfaces", "dto"}

INTERFACE_NAMES == {"interface.go", "types.go", "model.go", "models.go",
                    "types.ts", "interfaces.ts", "result.go", "result.py"}

UTIL_DIRS == {"utils", "util", "helpers", "helper", "common"}

UTIL_NAMES == {"utils.go", "util.go", "helpers.go", "helper.go",
               "utils.ts", "util.ts", "helpers.ts", "helper.ts"}

CONTROLLER_DIRS == {"controller", "controllers", "handler", "handlers",
                    "api", "routes", "endpoints"}

CONTROLLER_NAMES == {"controller.go", "handler.go"}

\* the layer _split_by_layer puts a file in
LayerOf(file) ==
    IF HasDir(file, INTERFACE_DIRS) \/ HasName(file, INTERFACE_NAMES) THEN "interfaces"
    ELSE IF HasDir(file, UTIL_DIRS) \/ HasName(file, UTIL_NAMES) THEN "utils"
    ELSE IF HasDir(file, CONTROLLER_DIRS) \/ HasName(file, CONTROLLER_NAMES) THEN "controllers"
    ELSE "implementations"

\* the path segments of the pool, in the order of Python's string comparison
SegmentOrder == <<"api", "app", "core", "root", "svc", "types", "utils">>

RECURSIVE PathLess(_, _)
PathLess(a, b) ==
    IF a = << >> THEN b # << >>
    ELSE IF b = << >> THEN FALSE
    ELSE IF Head(a) = Head(b) THEN PathLess(Tail(a), Tail(b))
    ELSE IndexOf(SegmentOrder, Head(a)) < IndexOf(SegmentOrder, Head(b))

\* sorted(implementations.items()): the directories, ascending
RECURSIVE SortedPaths(_)
SortedPaths(S) ==
    IF S = {} THEN << >>
    ELSE LET m == CHOOSE x \in S : \A y \in S \ {x} : PathLess(x, y)
         IN  <<m>> \o SortedPaths(S \ {m})

\* _split_by_layer, the loop over the sorted sub-packages: groups is impl_groups,
\* cur and curSize are current_group and current_size
RECURSIVE ImplGroups(_, _, _, _, _, _)
ImplGroups(dirs, impl, target_size, groups, cur, curSize) ==
    IF dirs = << >>
    THEN IF cur # {} THEN Append(groups, <<cur, curSize>>) ELSE groups
    ELSE
      LET impl_changes == impl[Head(dirs)]
          subpkg_size  == SizeOfSet(impl_changes)
          flushed      == IF cur # {} THEN Append(groups, <<cur, curSize>>) ELSE groups
      IN  IF 2 * subpkg_size >= target_size
          THEN ImplGroups(Tail(dirs), impl, target_size,
                          Append(flushed, <<impl_changes, subpkg_size>>), {}, 0)
          ELSE IF 2 * (curSize + subpkg_size) > 3 * target_size
          THEN ImplGroups(Tail(dirs), impl, target_size, flushed, impl_changes, subpkg_size)
          ELSE ImplGroups(Tail(dirs), impl, target_size, groups,
                          cur \cup impl_changes, curSize + subpkg_size)

\* _split_by_layer
split_by_layer(ids, target_size) ==
    LET known       == ids \cap ChangeIds
        layer(l)    == { c \in known : LayerOf(ChangeOf(c).file) = l }
        interfaces  == layer("interfaces")
        utils       == layer("utils")
        controllers == layer("controllers")
        impls       == layer("implementations")
        dirs        == { SubPackage(ChangeOf(c).file) : c \in impls }
        implementations ==
            [ d \in dirs |-> { c \in impls : SubPackage(ChangeOf(c).file) = d } ]
        impl_groups == ImplGroups(SortedPaths(dirs), implementations, target_size,
                                  << >>, {}, 0)
    IN  (IF interfaces # {}
         THEN << Candidate(interfaces, SizeOfSet(interfaces), FALSE) >> ELSE << >>)
        \o
        (IF utils # {}
         THEN << Candidate(utils, SizeOfSet(utils), FALSE) >> ELSE << >>)
        \o
        [ i \in DOMAIN impl_groups |->
            Candidate(impl_groups[i][1], impl_groups[i][2], FALSE) ]
        \o
        (IF controllers # {}
         THEN << Candidate(controllers, SizeOfSet(controllers), FALSE) >> ELSE << >>)

\* split_into_patches: is_new_feature
is_new_feature ==
    10 * Cardinality({ i \in DOMAIN changes : changes[i].type = "add" }) > 7 * Len(changes)

\* split_into_patches, the loop over the atomic groups
RECURSIVE AtomicCandidates(_)
AtomicCandidates(groups) ==
    IF groups = << >> THEN << >>
    ELSE
      LET group == Head(groups)
          size  == SizeOfSet(group.change_ids)
          layer_patches == split_by_layer(group.change_ids, target_patch_size)
      IN  (IF is_new_feature /\ size > target_patch_size * 2 /\ Len(layer_patches) > 1
           THEN layer_patches
           ELSE << Candidate(group.change_ids, size, TRUE) >>)
          \o AtomicCandidates(Tail(groups))

\* split_into_patches up to the merging pass: patch_candidates
SeedCandidates(groups) ==
    LET from_groups == AtomicCandidates(groups)
        assigned0   == UNION { groups[i].change_ids : i \in DOMAIN groups }
        unassigned  == { i \in DOMAIN changes : changes[i].id \notin assigned0 }
        layer_patches ==
            IF is_new_feature /\ Cardinality(unassigned) > 5
            THEN split_by_layer({ changes[i].id : i \in unassigned }, target_patch_size)
            ELSE << >>
        assigned    == assigned0
                        \cup UNION { layer_patches[i].change_ids : i \in DOMAIN layer_patches }
        loose       == SelectSeq(changes, LAMBDA c : c.id \notin assigned)
    IN  from_groups \o layer_patches
        \o [ i \in DOMAIN loose |->
               Candidate({loose[i].id}, loose[i].added_lines + loose[i].deleted_lines, FALSE) ]

\* _calculate_semantic_similarity > 0.5 (Jaccard of the semantic group ids)
GroupsOf(ids) ==
    { semantic_groups[i].id :
        i \in { k \in DOMAIN semantic_groups : semantic_groups[k].change_ids \cap ids # {} } }

SemanticallySimilar(changes1, changes2) ==
    LET groups1 == GroupsOf(changes1)
        groups2 == GroupsOf(changes2)
    IN  /\ groups1 # {}
        /\ groups2 # {}
        /\ 2 * Cardinality(groups1 \cap groups2) > Cardinality(groups1 \cup groups2)

\* _can_merge_patches
can_merge_patches(patch1_changes, patch2_changes, target_size) ==
    IF \E c1 \in patch1_changes, c2 \in patch2_changes : ~can_changes_be_separated(c1, c2)
    THEN TRUE
    ELSE IF 2 * SizeOfSet(patch1_changes \cup patch2_changes) > 3 * target_size
    THEN FALSE
    ELSE SemanticallySimilar(patch1_changes, patch2_changes)

\* _merge_patches, the inner loop over j for the candidate `current`:
\* the pair << current, used >> after it
RECURSIVE MergeInto(_, _, _, _, _)
MergeInto(current, j, used, candidates, target_size) ==
    IF j > Len(candidates) THEN << current, used >>
    ELSE IF j \in used THEN MergeInto(current, j + 1, used, candidates, target_size)
    ELSE IF can_merge_patches(current.change_ids, candidates[j].change_ids, target_size)
    THEN MergeInto(Candidate(current.change_ids \cup candidates[j].change_ids,
                             current.size + candidates[j].size,
                             current.atomic \/ candidates[j].atomic),
                   j + 1, used \cup {j}, candidates, target_size)
    ELSE MergeInto(current, j + 1, used, candidates, target_size)

\* _merge_patches, the outer loop over i
RECURSIVE MergeFrom(_, _, _, _, _)
MergeFrom(i, used, merged, candidates, target_size) ==
    IF i > Len(candidates) THEN merged
    ELSE IF i \in used THEN MergeFrom(i + 1, used, merged, candidates, target_size)
    ELSE LET r == MergeInto(candidates[i], i + 1, used, candidates, target_size)
         IN  MergeFrom(i + 1, r[2] \cup {i}, Append(merged, r[1]), candidates, target_size)

merge_patches(candidates, target_size) == MergeFrom(1, {}, << >>, candidates, target_size)

-----------------------------------------------------------------------------
(* phase4_splitting.py: final patches *)

\* models.Patch
Patch(id, name, description, chs, depends_on, size_lines, warns) ==
    [ id |-> id, name |-> name, description |-> description, changes |-> chs,
      depends_on |-> depends_on, size_lines |-> size_lines, warnings |-> warns ]

\* _generate_patch_description: the counts it prints
generate_patch_description(change_ids) ==
    [ t \in {"add", "modify", "delete"} |->
        Cardinality({ i \in DOMAIN change_ids : ChangeOf(change_ids[i]).type = t }) ]

\* _generate_patch_name without an LLM client: every << name, description >> it can
\* return; list(symbols)[:2] takes the first two names of a set in its iteration order
generate_patch_name(change_ids) ==
    LET files   == { ChangeOf(change_ids[i]).file : i \in DOMAIN change_ids }
        symbols == UNION { Range(SubSeq(ChangeOf(change_ids[i]).symbols, 1,
                                        Min({3, Len(ChangeOf(change_ids[i]).symbols)}))) :
                           i \in DOMAIN change_ids }
        firstTwo == { SubSeq(o, 1, Min({2, Len(o)})) : o \in Orderings(symbols) }
        file_name == LET f == CHOOSE x \in files : TRUE IN f[Len(f)]
        description == <<"no_llm_", generate_patch_description(change_ids)>>
    IN  IF Cardinality(files) = 1
        THEN IF symbols # {}
             THEN { << <<"Update", file_name, two>>, description >> : two \in firstTwo }
             ELSE { << <<"Changes in", file_name>>, description >> }
        ELSE IF symbols # {}
             THEN { << <<"Update", two>>, description >> : two \in firstTwo }
             ELSE { << <<"Changes across", Cardinality(files), "files">>, description >> }

\* the warnings _create_final_patches attaches
PatchWarnings(size, count) ==
    (IF size > 500 THEN << <<"Large patch", size>> >> ELSE << >>)
    \o (IF count > 20 THEN << <<"Many changes", count>> >> ELSE << >>)

\* _create_final_patches: every list of patches it can return; list(a set of
\* change ids) is a list of the ids in the set's iteration order
RECURSIVE FinalPatchesFrom(_, _)
FinalPatchesFrom(merged, idx) ==
    IF idx > Len(merged) THEN { << >> }
    ELSE
      LET heads ==
            UNION { { Patch(idx - 1, nd[1], nd[2], change_ids, << >>,
                            SumSeq([k \in DOMAIN change_ids |-> ChangeSize(change_ids[k])]),
                            PatchWarnings(
                              SumSeq([k \in DOMAIN change_ids |-> ChangeSize(change_ids[k])]),
                              Len(change_ids))) :
                      nd \in generate_patch_name(change_ids) } :
                    change_ids \in Orderings(merged[idx].change_ids) }
      IN  { <<h>> \o t : h \in heads, t \in FinalPatchesFrom(merged, idx + 1) }

create_final_patches(merged) == FinalPatchesFrom(merged, 1)

-----------------------------------------------------------------------------
(* phase4_splitting.py: _sort_patches_topologically *)

\* _patch_depends_on
patch_depends_on(patch1, patch2) ==
    \E i \in DOMAIN patch1.changes, j \in DOMAIN patch2.changes :
        patch2.changes[j] \in get_dependencies_for_change(patch1.changes[i])

\* the patch graph: an edge << patch1.id, patch2.id >> when patch1 "depends on" patch2
PatchGraphEdges(ps) ==
    { <<ps[p[1]].id, ps[p[2]].id>> :
        p \in { q \in (DOMAIN ps) \X (DOMAIN ps) :
                  q[1] # q[2] /\ patch_depends_on(ps[q[1]], ps[q[2]]) } }

Unfeasible == "NetworkXUnfeasible"

\* nx.topological_sort (Kahn's algorithm by generations): the nodes with no
\* incoming edge first, a node as soon as all its predecessors are listed;
\* nodes and neighbours are visited in the order they were added, ascending here
RECURSIVE VisitChildren(_, _, _)
VisitChildren(children, indeg, next) ==
    IF children = << >> THEN << indeg, next >>
    ELSE LET c == Head(children)
             d == [indeg EXCEPT ![c] = @ - 1]
         IN  VisitChildren(Tail(children), d, IF d[c] = 0 THEN Append(next, c) ELSE next)

RECURSIVE VisitGeneration(_, _, _, _)
VisitGeneration(gen, E, indeg, next) ==
    IF gen = << >> THEN << indeg, next >>
    ELSE LET r == VisitChildren(Ascending(Successors(E, Head(gen))), indeg, next)
         IN  VisitGeneration(Tail(gen), E, r[1], r[2])

RECURSIVE Generations(_, _, _, _)
Generations(gen, E, indeg, out) ==
    IF gen = << >>
    THEN IF \E n \in DOMAIN indeg : indeg[n] > 0 THEN Unfeasible ELSE out
    ELSE LET r == VisitGeneration(gen, E, indeg, << >>)
         IN  Generations(r[2], E, r[1], out \o gen)

topological_sort(N, E) ==
    LET indeg == [n \in N |-> Cardinality(Predecessors(E, n))]
    IN  Generations(Ascending({ n \in N : indeg[n] = 0 }), E, indeg, << >>)

\* nx.simple_cycles: every simple cycle once, as the list of its nodes starting at
\* the node the search started from.  The search takes a start node from a
\* component, lists the cycles through it, removes it and goes on with what is
\* left; `ord` is the order in which it takes the start nodes.
RECURSIVE CyclesAlong(_, _, _)
CyclesAlong(path, E, later) ==
    LET start == path[1]
        nbrs  == Ascending(Successors(E, path[Len(path)]))
        step[k \in 0..Len(nbrs)] ==
            IF k = 0 THEN << >>
            ELSE step[k - 1] \o
                 ( IF nbrs[k] = start THEN << path >>
                   ELSE IF nbrs[k] \in later /\ nbrs[k] \notin Range(path)
                   THEN CyclesAlong(Append(path, nbrs[k]), E, later)
                   ELSE << >> )
    IN  step[Len(nbrs)]

simple_cycles(E, ord) ==
    Flatten([ i \in DOMAIN ord |->
                CyclesAlong(<<ord[i]>>, E, { ord[k] : k \in (i + 1)..Len(ord) }) ])

\* the loop that removes edge cycle[-1] -> cycle[0] of every cycle:
\* the edges left, or NetworkXError when the edge is no longer there
\* together with the edges left at that point
Broken(E) == [ok |-> TRUE, edges |-> E]

Raised(E) == [ok |-> FALSE, edges |-> E]

RECURSIVE BreakCycles(_, _)
BreakCycles(cycles, E) ==
    IF cycles = << >> THEN Broken(E)
    ELSE LET cycle == Head(cycles)
             e     == << cycle[Len(cycle)], cycle[1] >>
         IN  IF Len(cycle) >= 2
             THEN IF e \in E THEN BreakCycles(Tail(cycles), E \ {e}) ELSE Raised(E)
             ELSE BreakCycles(Tail(cycles), E)

\* the order of the patch ids and the edges of the patch graph after the
\* try / except blocks of _sort_patches_topologically
SortedIds(N, E, ord) ==
    LET first == topological_sort(N, E)
    IN  IF first # Unfeasible
        THEN [ids |-> first, edges |-> E, path |-> "sorted"]
        ELSE
          LET cycles == simple_cycles(E, ord)
              broken == BreakCycles(cycles, E)
              second == topological_sort(N, broken.edges)
          IN  IF cycles = << >>
              THEN [ids |-> Ascending(N), edges |-> E, path |-> "node order"]
              ELSE IF broken.ok /\ second # Unfeasible
              THEN [ids |-> second, edges |-> broken.edges, path |-> "cycles broken"]
              ELSE [ids |-> Ascending(N), edges |-> broken.edges, path |-> "best effort"]

\* the new id of a patch: its position in the sorted order, from 0
NewId(sorted_ids, old_id) == IndexOf(sorted_ids, old_id) - 1

\* the renumbering loop without the assignment patch.id = new_id: the patch
\* keeps the id it had before the sort
RenumberedKeepingId(ps, sorted_ids, E, new_id) ==
    LET old_id   == sorted_ids[new_id + 1]
        patch    == ps[Max({ i \in DOMAIN ps : ps[i].id = old_id })]
        old_deps == SelectSeq(Ascending(Predecessors(E, old_id)),
                              LAMBDA d : d \in Range(sorted_ids))
    IN  [ patch EXCEPT !.depends_on = [ k \in DOMAIN old_deps |-> NewId(sorted_ids, old_deps[k]) ] ]

\* the renumbering loop: patch.id and patch.depends_on of the patch at new_id
Renumbered(ps, sorted_ids, E, new_id) ==
    LET old_id   == sorted_ids[new_id + 1]
        patch    == ps[Max({ i \in DOMAIN ps : ps[i].id = old_id })]
        old_deps == SelectSeq(Ascending(Predecessors(E, old_id)),
                              LAMBDA d : d \in Range(sorted_ids))
    IN  [ patch EXCEPT !.id = new_id,
                       !.depends_on = [ k \in DOMAIN old_deps |-> NewId(sorted_ids, old_deps[k]) ] ]

\* _sort_patches_topologically
sort_patches_topologically(ps, ord) ==
    LET N == { ps[i].id : i \in DOMAIN ps }
        s == SortedIds(N, PatchGraphEdges(ps), ord)
    IN  [ patches |-> [ i \in DOMAIN s.ids |-> Renumbered(ps, s.ids, s.edges, i - 1) ],
          path    |-> s.path ]

\* validate_patch: the issues, as the pairs << change_id, dep_id >> they name;
\* is_valid is that there is none
validate_patch(patch, applied_patches) ==
    LET applied_changes == UNION { Range(applied_patches[i].changes) : i \in DOMAIN applied_patches }
    IN  { issue \in Range(patch.changes) \X GraphNodes :
            /\ issue[2] \in get_dependencies_for_change(issue[1])
            /\ issue[2] \notin applied_changes
            /\ issue[2] \notin Range(patch.changes) }

-----------------------------------------------------------------------------
(* phase5_validation.py: PatchValidator *)

\* the change ids of all patches, patch after patch
AllPatchChanges(ps) == Flatten([ i \in DOMAIN ps |-> ps[i].changes ])

\* validate_patches: the list of issues
validate_patches(ps, chs) ==
    LET all_change_ids == { chs[i].id : i \in DOMAIN chs }
        flat      == AllPatchChanges(ps)
        missing   == all_change_ids \ Range(flat)
        dupAt     == { k \in DOMAIN flat : \E m \in 1..(k - 1) : flat[m] = flat[k] }
        duplicate == [ k \in 1..Cardinality(dupAt) |-> flat[Ascending(dupAt)[k]] ]
        later(i)  == SelectSeq(ps[i].depends_on, LAMBDA d : d >= ps[i].id)
    IN  (IF missing # {} THEN << [kind |-> "missing", ids |-> missing] >> ELSE << >>)
        \o (IF duplicate # << >>
            THEN << [kind |-> "duplicate", ids |-> duplicate] >> ELSE << >>)
        \o Flatten([ i \in DOMAIN ps |->
                       [ k \in DOMAIN later(i) |->
                           [kind |-> "order", patch |-> ps[i].id, dep |-> later(i)[k]] ] ])

PatchById(ps, id) == ps[Max({ i \in DOMAIN ps : ps[i].id = id })]

\* _calculate_max_dependency_depth: get_depth
RECURSIVE get_depth(_, _, _)
get_depth(ps, patch_id, visited) ==
    IF patch_id \in visited THEN 0
    ELSE IF ~(\E i \in DOMAIN ps : ps[i].id = patch_id) THEN 1
    ELSE IF PatchById(ps, patch_id).depends_on = << >> THEN 1
    ELSE 1 + Max({ get_depth(ps, d, visited \cup {patch_id}) :
                     d \in Range(PatchById(ps, patch_id).depends_on) })

calculate_max_dependency_depth(ps) ==
    IF ps = << >> THEN 0
    ELSE Max({ get_depth(ps, ps[i].id, {}) : i \in DOMAIN ps })

\* _calculate_balance_score < 0.5: the standard deviation of the sizes is more
\* than half their mean, 4 * n * sum(s^2) > 5 * sum(s)^2
Unbalanced(ps) ==
    LET sum   == SumSeq([ i \in DOMAIN ps |-> ps[i].size_lines ])
        sumSq == SumSeq([ i \in DOMAIN ps |-> ps[i].size_lines * ps[i].size_lines ])
    IN  /\ Len(ps) >= 2
        /\ sum # 0
        /\ 4 * Len(ps) * sumSq > 5 * sum * sum

\* _score_patch_size, in 1/6000
score_patch_size(size) ==
    IF size = 0 THEN 0
    ELSE IF size < 10 THEN 1800
    ELSE IF size >= 50 /\ size <= 200 THEN 6000
    ELSE IF size < 50 THEN 15 * (120 + 7 * (size - 10))
    ELSE IF size <= 500 THEN 2 * (3000 - 7 * (size - 200))
    ELSE 600

\* a common multiple of the denominators 1 + 0.2 * (num_files - 1) = (num_files + 4) / 5
FileScoreScale == 2520

\* _calculate_reviewability_score < 0.6, every score times 10 * 6000 * FileScoreScale
LowReviewability(ps) ==
    LET num_files(i) == Cardinality({ ChangeOf(ps[i].changes[k]).file : k \in DOMAIN ps[i].changes })
        warn(i)      == IF Len(ps[i].warnings) >= 5 THEN 0 ELSE 1200 * (5 - Len(ps[i].warnings))
        score(i)     == (5 * score_patch_size(ps[i].size_lines) + 2 * warn(i)) * FileScoreScale
                        + 3 * 6000 * ((5 * FileScoreScale) \div (num_files(i) + 4))
    IN  IF ps = << >> THEN TRUE
        ELSE SumSeq([ i \in DOMAIN ps |-> score(i) ]) < 36000 * FileScoreScale * Len(ps)

\* suggest_optimizations: the suggestions, by what they are about
suggest_optimizations(ps) ==
    LET large == SelectSeq(ps, LAMBDA q : q.size_lines > 500)
        small == SelectSeq(ps, LAMBDA q : q.size_lines < 20)
        depth == calculate_max_dependency_depth(ps)
    IN  (IF Unbalanced(ps) THEN << [kind |-> "suggestion", about |-> "balance"] >> ELSE << >>)
        \o (IF large # << >> THEN << [kind |-> "suggestion", about |-> "large"] >> ELSE << >>)
        \o (IF 10 * Len(small) > 3 * Len(ps)
            THEN << [kind |-> "suggestion", about |-> "small"] >> ELSE << >>)
        \o (IF depth > 5 THEN << [kind |-> "suggestion", about |-> "depth"] >> ELSE << >>)
        \o (IF LowReviewability(ps)
            THEN << [kind |-> "suggestion", about |-> "reviewability"] >> ELSE << >>)

-----------------------------------------------------------------------------
(* Diffs.  A path is the list of its '/'-separated segments: 'b/build/m.py' is      *)
(* << "b", "build", "m.py" >>, '/dev/null' is << "", "dev", "null" >> and '' is     *)
(* << >>.  A line of a hunk is its marker ('+', '-' or ' '), its text and the       *)
(* whitespace that trails it.                                                       *)

DevNull == << "", "dev", "null" >>

\* seg.lstrip(c) of a segment that has other characters than c, for the segments
\* of the paths of the model: the leading c's are gone
LstripSegment(seg, c) ==
    LET stripped == IF c = "b"
                    THEN ("build" :> "uild") @@ ("b.py" :> ".py")
                    ELSE ("app" :> "pp") @@ ("a.py" :> ".py") @@ ("api" :> "pi")
    IN  IF seg \in DOMAIN stripped THEN stripped[seg] ELSE seg

\* path.lstrip(c + '/'): every leading character that is c or '/' is removed,
\* whether or not the path starts with the prefix c + '/'
RECURSIVE Lstrip(_, _)
Lstrip(path, c) ==
    IF path = << >> THEN << >>
    ELSE IF Head(path) \in {"", c} THEN Lstrip(Tail(path), c)
    ELSE << LstripSegment(Head(path), c) >> \o Tail(path)

Line(marker, text, trailing) == [marker |-> marker, text |-> text, trailing |-> trailing]

\* a hunk of the diff: its '@@' header (target_start) and its lines
Hunk(start, lines) == [target_start |-> start, lines |-> lines]

\* the block of one file: 'diff --git a/path b/path', '--- a/path' and
\* '+++ b/path' ('+++ /dev/null' for a deleted file), and its hunks
PatchedFile(path, deleted, hunks) ==
    [ path        |-> path,
      source_file |-> <<"a">> \o path,
      target_file |-> IF deleted THEN DevNull ELSE <<"b">> \o path,
      hunks       |-> hunks ]

\* calculate_hunk_digest: the digest of the lines of the hunk without the '@@'
\* header, each with its trailing whitespace stripped; MD5 is taken to be free of
\* collisions, so the digest is the text it is computed from
calculate_hunk_digest(hunk) ==
    [ k \in DOMAIN hunk.lines |-> << hunk.lines[k].marker, hunk.lines[k].text >> ]

CountLines(hunk, marker) ==
    Cardinality({ k \in DOMAIN hunk.lines : hunk.lines[k].marker = marker })

\* _determine_change_type_from_hunk
determine_change_type_from_hunk(hunk) ==
    IF CountLines(hunk, "+") > 0 /\ CountLines(hunk, "-") > 0 THEN "modify"
    ELSE IF CountLines(hunk, "+") > 0 THEN "add"
    ELSE "delete"

\* parse_diff, the unidiff path: the file path of a block
FilePathOf(patched_file) ==
    LET file_path == Lstrip(patched_file.target_file, "b")
    IN  IF file_path = << >> \/ file_path = DevNull
        THEN Lstrip(patched_file.source_file, "a")
        ELSE file_path

\* parse_diff, the unidiff path: one Change for a hunk; the lines of the model
\* define and use no symbols
ParsedChange(patched_file, hunk_idx) ==
    LET hunk == patched_file.hunks[hunk_idx + 1]
    IN  [ id            |-> << FilePathOf(patched_file), "hunk", hunk_idx >>,
          file          |-> FilePathOf(patched_file),
          type          |-> determine_change_type_from_hunk(hunk),
          symbols       |-> << >>,
          line_range    |-> << hunk.target_start,
                               hunk.target_start + CountLines(hunk, "+") + CountLines(hunk, " ") >>,
          content       |-> hunk,
          added_lines   |-> CountLines(hunk, "+"),
          deleted_lines |-> CountLines(hunk, "-") ]

\* parse_diff, the try block: the Changes of the blocks that PatchSet yields
parse_with_unidiff(diff) ==
    Flatten([ f \in DOMAIN diff |->
                [ k \in DOMAIN diff[f].hunks |-> ParsedChange(diff[f], k - 1) ] ])

\* diff_text.split('\n'): the lines of the diff.  The block of a file is its
\* 'diff --git a/path b/path' line, its 'index ...' line, '--- ...', '+++ ...' and
\* the hunks, each an '@@' header and its lines; the text ends with a newline
DiffLines(diff) ==
    Flatten([ f \in DOMAIN diff |->
                << [kind |-> "diff --git", path |-> diff[f].path],
                   [kind |-> "index"],
                   [kind |-> "---", line |-> Line("---", diff[f].source_file, "")],
                   [kind |-> "+++", line |-> Line("+++", diff[f].target_file, "")] >>
                \o Flatten([ k \in DOMAIN diff[f].hunks |->
                     << [kind   |-> "@@",
                         start  |-> diff[f].hunks[k].target_start,
                         length |-> CountLines(diff[f].hunks[k], "+")
                                      + CountLines(diff[f].hunks[k], " ")] >>
                     \o [ n \in DOMAIN diff[f].hunks[k].lines |->
                            [kind |-> "line", line |-> diff[f].hunks[k].lines[n]] ] ]) ])
    \o << [kind |-> "empty"] >>

\* _add_fallback_change: the Change of the lines collected for a hunk
add_fallback_change(file_path, hunk_idx, hunk_lines) ==
    LET hunk == Hunk(hunk_lines[1].start,
                     [ n \in 1..(Len(hunk_lines) - 1) |-> hunk_lines[n + 1].line ])
    IN  [ id            |-> << file_path, "hunk", hunk_idx >>,
          file          |-> file_path,
          type          |-> determine_change_type_from_hunk(hunk),
          symbols       |-> << >>,
          line_range    |-> << hunk_lines[1].start, hunk_lines[1].start + hunk_lines[1].length >>,
          content       |-> hunk,
          added_lines   |-> CountLines(hunk, "+"),
          deleted_lines |-> CountLines(hunk, "-") ]

\* _parse_diff_fallback: 'if current_hunk and current_file: _add_fallback_change(...);
\* hunk_idx += 1'
SavePending(st) ==
    IF st.current_hunk # << >> /\ st.current_file # None
    THEN [ st EXCEPT !.changes  = Append(@, add_fallback_change(st.current_file, st.hunk_idx,
                                                               st.current_hunk)),
                     !.hunk_idx = @ + 1 ]
    ELSE st

\* _parse_diff_fallback: the body of the loop for one line.  A 'diff --git' line
\* saves the pending hunk and sets the file, and leaves current_hunk and in_hunk
\* as they are
ScanLine(st, line) ==
    IF line.kind = "diff --git"
    THEN [ SavePending(st) EXCEPT !.current_file = Lstrip(<<"b">> \o line.path, "b"),
                                  !.hunk_idx = 0 ]
    ELSE IF line.kind = "@@"
    THEN [ SavePending(st) EXCEPT !.current_hunk = << line >>, !.in_hunk = TRUE ]
    ELSE IF st.in_hunk /\ line.kind \in {"line", "---", "+++"}
    THEN [ st EXCEPT !.current_hunk = Append(@, line) ]
    ELSE IF st.in_hunk
    THEN [ SavePending(st) EXCEPT !.current_hunk = << >>, !.in_hunk = FALSE ]
    ELSE st

RECURSIVE ScanLines(_, _)
ScanLines(st, lines) ==
    IF lines = << >> THEN st ELSE ScanLines(ScanLine(st, Head(lines)), Tail(lines))

\* _parse_diff_fallback
parse_diff_fallback(diff) ==
    SavePending(
      ScanLines([ changes |-> << >>, current_file |-> None, current_hunk |-> << >>,
                  hunk_idx |-> 0, in_hunk |-> FALSE ],
                DiffLines(diff))).changes

\* parse_diff: the unidiff path, or the fallback when it raises
parse_diff(diff) ==
    IF unidiff_fails THEN parse_diff_fallback(diff) ELSE parse_with_unidiff(diff)

\* extract_hunks_from_patch_file for blocks whose file name is not empty:
\* << file, hunk, digest >> of every hunk; the file is taken from the
\* 'diff --git a/path b/path' line
extract_hunks_from_patch_file(blocks) ==
    Flatten([ f \in DOMAIN blocks |->
                [ k \in DOMAIN blocks[f].hunks |->
                    << Lstrip(<<"b">> \o blocks[f].path, "b"),
                       blocks[f].hunks[k],
                       calculate_hunk_digest(blocks[f].hunks[k]) >> ] ])

NotVerified == [verified |-> FALSE, input_only |-> {}, output_only |-> {}]

\* use_llm is False or there is no llm_client: analyze_dependencies is not called
NoLlm == [kind |-> "none", missing_dependencies |-> << >>]

-----------------------------------------------------------------------------
(* agent.py: CodeSplitterAgent.split_changes with the LLM disabled.  Phase 1      *)
(* (the Changes and their dependencies) and phase 3 (the semantic groups) are the *)
(* inputs of the model.                                                           *)

Init ==
    /\ pc = "phase2"
    /\ run = 1
    /\ changes \in InputChanges
    /\ dependencies \in InputDependencies
    /\ semantic_groups \in InputSemanticGroups
    /\ target_patch_size \in TargetSizes
    /\ max_patches \in MaxPatchesChoices
    /\ atomic_groups = << >>
    /\ patch_candidates = << >>
    /\ patches = << >>
    /\ sort_path = None
    /\ warnings = << >>
    /\ first_patches = << >>
    /\ diff_text = << >>
    /\ patch_files = << >>
    /\ integrity = NotVerified
    /\ llm_analysis = NoLlm
    /\ cancel = FALSE
    /\ topological_order = << >>
    /\ unidiff_fails = FALSE
    /\ patch_split_dir = << >>
    /\ metadata = << >>

Inputs == << changes, dependencies, semantic_groups, target_patch_size, max_patches, diff_text >>

Exported == << patch_files, integrity >>

Resplit == << patch_split_dir, metadata >>

Env == << llm_analysis, cancel, topological_order, unidiff_fails, Resplit >>

\* Phase 2: dep_graph.find_atomic_groups()
FindAtomicGroups ==
    /\ pc = "phase2"
    /\ atomic_groups' \in find_atomic_groups
    /\ pc' = "phase4"
    /\ UNCHANGED << Env, Inputs, Exported, run, patch_candidates, patches, sort_path, warnings,
                    first_patches >>

\* Phase 4, split_into_patches: the candidates, _merge_patches,
\* _create_final_patches and _sort_patches_topologically; KeyError when an atomic
\* group names a change that is not in change_map
SplitIntoPatches ==
    /\ pc = "phase4"
    /\ IF \E i \in DOMAIN atomic_groups : ~(atomic_groups[i].change_ids \subseteq ChangeIds)
       THEN /\ pc' = "KeyError"
            /\ UNCHANGED << patch_candidates, patches, sort_path >>
       ELSE /\ pc' = "phase5"
            /\ patch_candidates' = merge_patches(SeedCandidates(atomic_groups), target_patch_size)
            /\ \E created \in create_final_patches(patch_candidates') :
                 LET N == { created[i].id : i \in DOMAIN created }
                     E == PatchGraphEdges(created)
                 IN  \E ord \in ( IF topological_sort(N, E) = Unfeasible
                                  THEN Orderings(N) ELSE { Ascending(N) } ) :
                       LET r == sort_patches_topologically(created, ord)
                       IN  /\ patches' = r.patches
                           /\ sort_path' = r.path
    /\ UNCHANGED << Env, Inputs, Exported, run, atomic_groups, warnings, first_patches >>

\* Phase 5: validate_patches, suggest_optimizations and the warnings of the result
Validate ==
    /\ pc = "phase5"
    /\ warnings' = validate_patches(patches, changes) \o suggest_optimizations(patches)
    /\ pc' = "done"
    /\ UNCHANGED << Env, Inputs, Exported, run, atomic_groups, patch_candidates, patches, sort_path,
                    first_patches >>

Next ==
    \/ FindAtomicGroups
    \/ SplitIntoPatches
    \/ Validate

Spec == Init /\ [][Next]_vars

\* split_changes is called once more with the same arguments (a second run of the
\* pipeline on the same diff); the patches of the first run are kept for comparison
Rerun ==
    /\ pc = "done"
    /\ run = 1
    /\ run' = 2
    /\ first_patches' = patches
    /\ pc' = "phase2"
    /\ atomic_groups' = << >>
    /\ patch_candidates' = << >>
    /\ patches' = << >>
    /\ sort_path' = None
    /\ warnings' = << >>
    /\ UNCHANGED << Env, Inputs, Exported >>

\* the inputs of the runs that are repeated: no change is large and the
\* dependencies are one-way
InitRerun ==
    /\ Init
    /\ \A i \in DOMAIN changes : changes[i].added_lines + changes[i].deleted_lines < target_patch_size
    /\ \A d1, d2 \in dependencies : ~(d1.source = d2.target /\ d1.target = d2.source)

NextRerun == Next \/ Rerun

SpecRerun == InitRerun /\ [][NextRerun]_vars

-----------------------------------------------------------------------------
(* agent.py: split_changes on a diff, then export_patches_to_files *)

\* the paths of the files of the input diffs, in the order git lists them
DiffPaths == << <<"app", "core", "a.py">>, <<"build", "m.py">>, <<"m.py">> >>

\* the lines of the hunks of a deleted file and of a changed file
HunkLines(deleted) ==
    IF deleted
    THEN { << Line("-", "x", "") >>, << Line("-", "y", "") >> }
    ELSE { << Line("+", "x", "") >>, << Line("+", "x", " ") >>,
           << Line("-", "x", ""), Line("+", "y", "") >> }

\* the hunks of a block: one that removes every line of a deleted file, up to
\* MaxHunks of a changed file
HunkLists(deleted) ==
    UNION { { [ k \in 1..n |-> Hunk(10 * k, ls[k]) ] : ls \in [1..n -> HunkLines(deleted)] } :
              n \in 1..(IF deleted THEN 1 ELSE MaxHunks) }

\* what the block of a file can be: the hunks of a deleted file only remove
BlockShapes ==
    { [deleted |-> TRUE, hunks |-> hs] : hs \in HunkLists(TRUE) }
        \cup { [deleted |-> FALSE, hunks |-> hs] : hs \in HunkLists(FALSE) }

\* the files of an input diff: up to MaxFiles of the paths
DiffFileSets == { Q \in SUBSET DOMAIN DiffPaths : Cardinality(Q) \in 1..MaxFiles }

\* the diff with a block of the given shape for each of the files P, in their order
DiffOf(P, shape) ==
    [ k \in 1..Cardinality(P) |->
        PatchedFile(DiffPaths[Ascending(P)[k]],
                    shape[Ascending(P)[k]].deleted, shape[Ascending(P)[k]].hunks) ]

\* split_changes is called with a diff; PatchSet raises on it when fails is TRUE
InitDiff(fails) ==
    /\ pc = "phase1"
    /\ run = 1
    /\ \E P \in DiffFileSets : \E shape \in [P -> BlockShapes] : diff_text = DiffOf(P, shape)
    /\ changes = << >>
    /\ dependencies = {}
    /\ semantic_groups = << >>
    /\ target_patch_size \in TargetSizes
    /\ max_patches \in MaxPatchesChoices
    /\ atomic_groups = << >>
    /\ patch_candidates = << >>
    /\ patches = << >>
    /\ sort_path = None
    /\ warnings = << >>
    /\ first_patches = << >>
    /\ patch_files = << >>
    /\ integrity = NotVerified
    /\ llm_analysis = NoLlm
    /\ cancel = FALSE
    /\ topological_order = << >>
    /\ unidiff_fails \in fails
    /\ patch_split_dir = << >>
    /\ metadata = << >>

InitExport == InitDiff({FALSE})

\* Phase 1 and phase 3 of split_changes on a diff: parse_diff; the lines of the
\* model define and use no symbols, so that there are no dependencies; the
\* semantic groups are none, or one group of all changes
ParseDiff ==
    /\ pc = "phase1"
    /\ changes' = parse_diff(diff_text)
    /\ dependencies' = {}
    /\ semantic_groups' \in { << >>, << SemGroup(1, { changes'[i].id : i \in DOMAIN changes' }) >> }
    /\ pc' = "phase2"
    /\ UNCHANGED << Env, Exported, run, target_patch_size, max_patches, diff_text, atomic_groups,
                    patch_candidates, patches, sort_path, warnings, first_patches >>

\* the members of a list, each once, in the order of their first occurrence
RECURSIVE Distinct(_)
Distinct(s) ==
    IF s = << >> THEN << >>
    ELSE LET init == Distinct(SubSeq(s, 1, Len(s) - 1))
         IN  IF s[Len(s)] \in Range(init) THEN init ELSE Append(init, s[Len(s)])

\* sorted(changes, key=lambda c: c.line_range[0]), a stable sort
RECURSIVE SortedByLine(_)
SortedByLine(chs) ==
    IF chs = << >> THEN << >>
    ELSE LET init == SortedByLine(SubSeq(chs, 1, Len(chs) - 1))
             last == chs[Len(chs)]
             keep == Cardinality({ k \in DOMAIN init : init[k].line_range[1] <= last.line_range[1] })
         IN  SubSeq(init, 1, keep) \o << last >> \o SubSeq(init, keep + 1, Len(init))

\* export_patches_to_files: the blocks written to the file of one patch; the
\* changes of the model carry no symbols, for which _order_files_by_dependencies
\* leaves the files in the order of file_changes
WrittenBlocks(patch, parsed) ==
    LET change_map(id) == parsed[Max({ i \in DOMAIN parsed : parsed[i].id = id })]
        known == SelectSeq(patch.changes, LAMBDA id : \E i \in DOMAIN parsed : parsed[i].id = id)
        found == [ k \in DOMAIN known |-> change_map(known[k]) ]
        ordered_files == Distinct([ k \in DOMAIN found |-> found[k].file ])
        sorted_changes(file) == SortedByLine(SelectSeq(found, LAMBDA c : c.file = file))
    IN  [ f \in DOMAIN ordered_files |->
            [ path  |-> ordered_files[f],
              hunks |-> [ k \in DOMAIN sorted_changes(ordered_files[f]) |->
                            sorted_changes(ordered_files[f])[k].content ] ] ]

\* _verify_hunk_integrity: the digests only in the input and only in the output
verify_hunk_integrity(original_diff, written) ==
    LET input_hunks    == extract_hunks_from_patch_file(original_diff)
        output_hunks   == Flatten([ i \in DOMAIN written |->
                                      extract_hunks_from_patch_file(written[i].blocks) ])
        input_digests  == { input_hunks[k][3] : k \in DOMAIN input_hunks }
        output_digests == { output_hunks[k][3] : k \in DOMAIN output_hunks }
    IN  [ verified    |-> TRUE,
          input_only  |-> input_digests \ output_digests,
          output_only |-> output_digests \ input_digests ]

\* export_patches_to_files, with the hunk integrity check that ends it
ExportPatchesToFiles ==
    /\ pc = "done"
    /\ diff_text # << >>
    /\ patch_files' = [ i \in DOMAIN patches |->
                          [ patch  |-> patches[i].id,
                            blocks |-> WrittenBlocks(patches[i], parse_diff(diff_text)) ] ]
    /\ integrity' = verify_hunk_integrity(diff_text, patch_files')
    /\ pc' = "exported"
    /\ UNCHANGED << Env, Inputs, run, atomic_groups, patch_candidates, patches, sort_path, warnings,
                    first_patches >>

NextExport ==
    \/ ParseDiff
    \/ FindAtomicGroups
    \/ SplitIntoPatches
    \/ Validate
    \/ ExportPatchesToFiles

SpecExport == InitExport /\ [][NextExport]_vars

-----------------------------------------------------------------------------
(* agent.py: split_changes with use_llm: _enhance_dependencies_with_llm.  The LLM *)
(* answers the question about the dependencies; every later LLM call of the run   *)
(* fails (identify_semantic_groups and validate_patches answer with an 'error'    *)
(* key, the patch names fall back to _generate_patch_name without LLM).           *)

MaxLlmEntries == 2      \* most entries of missing_dependencies

\* a change id the LLM made up: the id of no Change
UnknownId == 0

\* a change id with a '*' in it
WildcardId == 0 - 1

\* an entry of analysis['missing_dependencies']; a malformed entry has no 'source'
\* key
LlmEntry(source, target, strength, malformed) ==
    [source |-> source, target |-> target, strength |-> strength, malformed |-> malformed]

LlmEntries ==
    { LlmEntry(3, 4, 80, FALSE),
      LlmEntry(2, UnknownId, 80, FALSE),
      LlmEntry(UnknownId, 2, 80, FALSE),
      LlmEntry(WildcardId, 1, 80, FALSE),
      LlmEntry(0, 0, 0, TRUE) }

\* what analyze_dependencies can do: raise, answer with an 'error' key, or answer
\* with a list of missing dependencies
LlmAnalyses ==
    { [kind |-> "raises", missing_dependencies |-> << >>],
      [kind |-> "error", missing_dependencies |-> << >>] }
    \cup { [kind |-> "answer", missing_dependencies |-> m] :
             m \in UNION { [1..n -> LlmEntries] : n \in 0..MaxLlmEntries } }

\* the loop over analysis['missing_dependencies']: dependencies.append(dep) changes
\* the caller's list; the KeyError of a malformed entry leaves the loop and is caught
RECURSIVE AddMissingDependencies(_, _)
AddMissingDependencies(deps, missing) ==
    IF missing = << >> THEN deps
    ELSE LET dep_data == Head(missing)
         IN  IF dep_data.malformed THEN deps
             ELSE IF dep_data.source = WildcardId \/ dep_data.target = WildcardId
             THEN AddMissingDependencies(deps, Tail(missing))
             ELSE AddMissingDependencies(
                    deps \cup { Dep(dep_data.source, dep_data.target, dep_data.strength) },
                    Tail(missing))

\* _enhance_dependencies_with_llm: the dependencies it returns
enhance_dependencies_with_llm(deps, analysis) ==
    IF analysis.kind \in {"none", "raises", "error"} THEN deps
    ELSE AddMissingDependencies(deps, analysis.missing_dependencies)

\* the run with use_llm: phase 1 has computed the dependencies, the LLM is asked next
InitLLM ==
    /\ pc = "llm_dependencies"
    /\ run = 1
    /\ changes \in { c \in InputChanges : \A i \in DOMAIN c : c[i].added_lines + c[i].deleted_lines < 100 }
    /\ dependencies \in SUBSET { Dep(1, 2, 80), Dep(4, 3, 80) }
    /\ semantic_groups \in { << >>, << SemGroup(1, {1, 3}) >> }
    /\ target_patch_size \in TargetSizes
    /\ max_patches \in MaxPatchesChoices
    /\ atomic_groups = << >>
    /\ patch_candidates = << >>
    /\ patches = << >>
    /\ sort_path = None
    /\ warnings = << >>
    /\ first_patches = << >>
    /\ diff_text = << >>
    /\ patch_files = << >>
    /\ integrity = NotVerified
    /\ llm_analysis \in LlmAnalyses
    /\ cancel = FALSE
    /\ topological_order = << >>
    /\ unidiff_fails = FALSE
    /\ patch_split_dir = << >>
    /\ metadata = << >>

\* split_changes, use_llm: dependencies = self._enhance_dependencies_with_llm(...)
EnhanceDependenciesWithLLM ==
    /\ pc = "llm_dependencies"
    /\ dependencies' = enhance_dependencies_with_llm(dependencies, llm_analysis)
    /\ pc' = "phase2"
    /\ UNCHANGED << Env, Exported, run, changes, semantic_groups, target_patch_size, max_patches,
                    diff_text, atomic_groups, patch_candidates, patches, sort_path, warnings,
                    first_patches >>

NextLLM == EnhanceDependenciesWithLLM \/ Next

SpecLLM == InitLLM /\ [][NextLLM]_vars

-----------------------------------------------------------------------------
(* agent.py: split_changes and a caller that asks for cancellation.  split_changes *)
(* takes diff_text, target_patch_size, max_patches, codebase_context and          *)
(* additional_context; no statement of it reads a cancel signal.                  *)

\* the caller raises the cancel signal while the run is under way
RaiseCancel ==
    /\ pc \notin {"done", "KeyError"}
    /\ ~cancel
    /\ cancel' = TRUE
    /\ UNCHANGED << llm_analysis, topological_order, unidiff_fails, Resplit, Inputs, Exported, pc,
                    run, atomic_groups, patch_candidates, patches, sort_path, warnings,
                    first_patches >>

\* the runs a caller may cancel: small changes, at most two dependencies
InitCancel ==
    /\ Init
    /\ \A i \in DOMAIN changes : changes[i].added_lines + changes[i].deleted_lines < target_patch_size
    /\ dependencies \subseteq { Dep(1, 2, 80), Dep(4, 3, 80) }

NextCancel == RaiseCancel \/ Next

SpecCancel == InitCancel /\ [][NextCancel]_vars

-----------------------------------------------------------------------------
(* phase2_graph.py: DependencyGraph.topological_sort on the graph that add_changes *)
(* and add_dependencies built (tests/test_basic.py: test_dependency_graph)         *)

\* list(nx.topological_sort(self.graph)) over the edges source -> target.  On a
\* cycle nx raises NetworkXUnfeasible, which is no NetworkXError: the except
\* clause does not take it and the call raises
DependencyGraph_topological_sort == topological_sort(GraphNodes, GraphEdges)

\* sorted_changes = graph.topological_sort()
TopologicalSort ==
    /\ pc = "phase2"
    /\ topological_order' = DependencyGraph_topological_sort
    /\ pc' = IF topological_order' = Unfeasible THEN Unfeasible ELSE "sorted"
    /\ UNCHANGED << llm_analysis, cancel, unidiff_fails, Resplit, Inputs, Exported, run,
                    atomic_groups, patch_candidates, patches, sort_path, warnings,
                    first_patches >>

SpecGraph == Init /\ [][TopologicalSort]_vars

-----------------------------------------------------------------------------
(* agent.py: CodeSplitterAgent.resplit_patch on a directory that split wrote.  A  *)
(* patch file is named '<id>_<name part>' and holds hunks; the split of the chosen *)
(* patch and its export to the temporary directory are taken to keep every hunk,  *)
(* so that what is checked is the update of the directory.                        *)

MaxPatchFiles == 3

\* '_'.join(filename.split('_')[1:]) of the patch files: safe_name + '.patch'
NameParts == {"Update_a.patch", "Changes_in_b.patch"}

\* f"{id:02d}_{name_part}"
FileName(id, name_part) == << id, name_part >>

\* a patch entry of metadata['patches']: "id", "filename" and "dependencies"
PatchEntry(id, filename, deps) == [id |-> id, filename |-> filename, dependencies |-> deps]

\* patch.depends_on of the patch with the id given, as split wrote it: ids of
\* earlier patches, ascending
DependsOnLists(id) == { Ascending(S) : S \in SUBSET (0..(id - 1)) }

\* the hunks of a directory that split wrote: two for each patch
HunksOfPatch(id) == << <<id, 0>>, <<id, 1>> >>

\* result.patches written by _export_split_patches: one patch with all hunks of
\* the file, or one patch for each hunk; ids from 0, any names; the dependencies
\* of a patch are ids of the re-split result
NewPatches(hunks) ==
    { << [name_part |-> nm, hunks |-> hunks, dependencies |-> << >>] >> : nm \in NameParts }
    \cup
    { [ j \in DOMAIN o |-> [name_part |-> nms[j], hunks |-> << hunks[o[j]] >>,
                            dependencies |-> deps[j]] ] :
        o \in Orderings(DOMAIN hunks), nms \in [DOMAIN hunks -> NameParts],
        deps \in { f \in [DOMAIN hunks -> UNION { DependsOnLists(j - 1) : j \in DOMAIN hunks }] :
                     \A j \in DOMAIN hunks : f[j] \in DependsOnLists(j - 1) } }

\* shutil.move(src_path, dst_path), os.rename: a file at dst_path is replaced
Move(dir, src, dst) ==
    [ f \in (DOMAIN dir \ {src}) \cup {dst} |-> IF f = dst THEN dir[src] ELSE dir[f] ]

\* the loop over os.listdir(patch_split_dir), lines 1595-1623: the files whose id
\* is above patch_index are moved to the shifted id, in the order of the listing
RECURSIVE RenameShifted(_, _, _, _, _)
RenameShifted(dir, listing, patch_filename, patch_index, num_new_patches) ==
    IF listing = << >> THEN dir
    ELSE
      LET filename == Head(listing)
          old_id   == filename[1]
          dst      == FileName(old_id + (num_new_patches - 1), filename[2])
          moved    == IF filename = patch_filename \/ old_id <= patch_index \/ dst = filename
                      THEN dir
                      ELSE Move(dir, filename, dst)
      IN  RenameShifted(moved, Tail(listing), patch_filename, patch_index, num_new_patches)

\* the loop over new_patch_entries, lines 1626-1639: shutil.copy2 of the j-th
\* file of the temporary directory to the name with the new id
CopyNewPatches(dir, new_patches, old_patch_id) ==
    LET names == { FileName(old_patch_id + j - 1, new_patches[j].name_part) :
                     j \in DOMAIN new_patches }
    IN  [ f \in DOMAIN dir \cup names |->
            IF f \in names THEN new_patches[f[1] - old_patch_id + 1].hunks ELSE dir[f] ]

\* updated_patches, lines 1533-1588: ids, file names and dependencies of the
\* entries
UpdatedPatches(patch_index, new_patches) ==
    LET old_patch_id    == metadata[patch_index + 1].id
        num_new_patches == Len(new_patches)
        before == SubSeq(metadata, 1, patch_index)
        new    == [ j \in DOMAIN new_patches |->
                      PatchEntry(old_patch_id + j - 1,
                                 FileName(old_patch_id + j - 1, new_patches[j].name_part),
                                 [ n \in DOMAIN new_patches[j].dependencies |->
                                     LET dep == new_patches[j].dependencies[n]
                                     IN  IF dep < old_patch_id THEN dep
                                         ELSE dep - patch_index + old_patch_id ]) ]
        after  == [ k \in 1..(Len(metadata) - patch_index - 1) |->
                      LET p == metadata[patch_index + 1 + k]
                      IN  PatchEntry(p.id + (num_new_patches - 1),
                                     FileName(p.id + (num_new_patches - 1), p.filename[2]),
                                     [ n \in DOMAIN p.dependencies |->
                                         LET dep == p.dependencies[n]
                                         IN  IF dep < old_patch_id THEN dep
                                             ELSE IF dep = old_patch_id THEN old_patch_id
                                             ELSE dep + (num_new_patches - 1) ]) ]
    IN  before \o new \o after

\* a directory written by split: patches 0..n-1, one file each, each depending
\* on earlier patches
InitResplit ==
    /\ pc = "resplit"
    /\ run = 1
    /\ changes = << >>
    /\ dependencies = {}
    /\ semantic_groups = << >>
    /\ target_patch_size \in TargetSizes
    /\ max_patches = << >>
    /\ atomic_groups = << >>
    /\ patch_candidates = << >>
    /\ patches = << >>
    /\ sort_path = None
    /\ warnings = << >>
    /\ first_patches = << >>
    /\ diff_text = << >>
    /\ patch_files = << >>
    /\ integrity = NotVerified
    /\ llm_analysis = NoLlm
    /\ cancel = FALSE
    /\ topological_order = << >>
    /\ unidiff_fails = FALSE
    /\ \E n \in 2..MaxPatchFiles : \E nms \in [1..n -> NameParts] :
         /\ \E deps \in [1..n -> UNION { DependsOnLists(i - 1) : i \in 1..n }] :
              /\ \A i \in 1..n : deps[i] \in DependsOnLists(i - 1)
              /\ metadata = [ i \in 1..n |->
                                PatchEntry(i - 1, FileName(i - 1, nms[i]), deps[i]) ]
         /\ patch_split_dir = [ f \in { FileName(i - 1, nms[i]) : i \in 1..n } |->
                                  HunksOfPatch(f[1]) ]

\* resplit_patch on the patch at patch_index, when the re-split gives
\* new_patches and os.listdir the listing: the directory and the metadata written
ResplitWrites(patch_index, new_patches, listing) ==
    LET patch_entry    == metadata[patch_index + 1]
        patch_filename == patch_entry.filename
    IN  /\ patch_split_dir' =
             CopyNewPatches(
               RenameShifted(patch_split_dir, listing, patch_filename, patch_index,
                             Len(new_patches)),
               new_patches, patch_entry.id)
        /\ metadata' = UpdatedPatches(patch_index, new_patches)

\* resplit_patch(patch_split_dir, patch_filename, ...)
ResplitPatch ==
    /\ pc = "resplit"
    /\ \E patch_index \in 0..(Len(metadata) - 1) :
         \E new_patches \in NewPatches(patch_split_dir[metadata[patch_index + 1].filename]) :
           \E listing \in Orderings(DOMAIN patch_split_dir) :
             ResplitWrites(patch_index, new_patches, listing)
    /\ pc' = "resplit_done"
    /\ UNCHANGED << llm_analysis, cancel, topological_order, unidiff_fails, Inputs, Exported,
                    run, atomic_groups, patch_candidates, patches, sort_path, warnings,
                    first_patches >>

SpecResplit == InitResplit /\ [][ResplitPatch]_vars

-----------------------------------------------------------------------------
(* phase1_analysis.py: DiffParser.parse_diff on a diff, with the unidiff parser   *)
(* or, when PatchSet raises, with the fallback line scanner                       *)

InitParse == InitDiff(BOOLEAN)

SpecParse == InitParse /\ [][ParseDiff]_vars

-----------------------------------------------------------------------------
(* phase2_graph.py: find_atomic_groups on graphs with chains and cycles of        *)
(* strength 1.0 dependencies                                                      *)

StrongChainPool ==
    { Dep(1, 2, 100), Dep(2, 3, 100), Dep(3, 1, 100), Dep(3, 4, 100), Dep(4, 3, 100),
      Dep(4, 5, 80), Dep(5, 3, 80) }

InitAtomic ==
    /\ pc = "phase2"
    /\ run = 1
    /\ changes \in InputChanges
    /\ dependencies \in SUBSET StrongChainPool
    /\ semantic_groups = << >>
    /\ target_patch_size \in TargetSizes
    /\ max_patches \in MaxPatchesChoices
    /\ atomic_groups = << >>
    /\ patch_candidates = << >>
    /\ patches = << >>
    /\ sort_path = None
    /\ warnings = << >>
    /\ first_patches = << >>
    /\ diff_text = << >>
    /\ patch_files = << >>
    /\ integrity = NotVerified
    /\ llm_analysis = NoLlm
    /\ cancel = FALSE
    /\ topological_order = << >>
    /\ unidiff_fails = FALSE
    /\ patch_split_dir = << >>
    /\ metadata = << >>

SpecAtomic == InitAtomic /\ [][FindAtomicGroups]_vars

-----------------------------------------------------------------------------
(* phase5_validation.py: PatchValidator.validate_patches called on patches that   *)
(* need not come from split_into_patches                                          *)

\* patch.changes of the patches handed to validate_patches: ids of the input
\* changes 1..3 and UnknownId, the id of no input change
ChangeListPool == { <<1>>, <<2>>, <<3>>, <<1, 2>>, <<2, 3>>, <<3, UnknownId>>, <<UnknownId>> }

DependsOnPool == { << >>, <<0>>, <<1>> }

PatchLists ==
    UNION { { [ i \in 1..n |-> Patch(i - 1, <<"patch", i - 1>>, << >>, chs[i], deps[i],
                                    10 * Len(chs[i]), << >>) ] :
                chs \in [1..n -> ChangeListPool], deps \in [1..n -> DependsOnPool] } :
            n \in 1..2 }

InitValidate ==
    /\ pc = "validate"
    /\ run = 1
    /\ changes = [ i \in 1..3 |-> MakeChange(i, "add", 0) ]
    /\ dependencies = {}
    /\ semantic_groups = << >>
    /\ target_patch_size \in TargetSizes
    /\ max_patches \in MaxPatchesChoices
    /\ atomic_groups = << >>
    /\ patch_candidates = << >>
    /\ patches \in PatchLists
    /\ sort_path = None
    /\ warnings = << >>
    /\ first_patches = << >>
    /\ diff_text = << >>
    /\ patch_files = << >>
    /\ integrity = NotVerified
    /\ llm_analysis = NoLlm
    /\ cancel = FALSE
    /\ topological_order = << >>
    /\ unidiff_fails = FALSE
    /\ patch_split_dir = << >>
    /\ metadata = << >>

\* is_valid, issues = validate_patches(patches, changes)
ValidatePatches ==
    /\ pc = "validate"
    /\ warnings' = validate_patches(patches, changes)
    /\ pc' = "validated"
    /\ UNCHANGED << Env, Inputs, Exported, run, atomic_groups, patch_candidates, patches,
                    sort_path, first_patches >>

SpecValidate == InitValidate /\ [][ValidatePatches]_vars

-----------------------------------------------------------------------------
(* Properties of the patches returned by split_into_patches *)

\* split_into_patches has returned
Returned == pc \in {"phase5", "done"}

\* the patches that hold a change
PatchesOf(id) == { i \in DOMAIN patches : id \in Range(patches[i].changes) }

\* C1: the patches returned by split_into_patches partition the input: every input
\* change id is in the changes of exactly one patch, once, and no patch holds an id
\* that is not an input change id
C1_PatchesPartitionInput ==
    Returned =>
        /\ \A id \in ChangeIds : Cardinality(PatchesOf(id)) = 1
        /\ Len(AllPatchChanges(patches)) = Cardinality(ChangeIds)
        /\ Range(AllPatchChanges(patches)) \subseteq ChangeIds

\* C2: after _sort_patches_topologically, on every path through it, every id in
\* p.depends_on is strictly smaller than p.id
C2_DependsOnSmallerIds ==
    Returned =>
        \A i \in DOMAIN patches :
            \A k \in DOMAIN patches[i].depends_on : patches[i].depends_on[k] < patches[i].id

\* C3: for every dependency (source, target) the patch that holds target has an id
\* less than or equal to the id of the patch that holds source, equal only when
\* they are the same patch
C3_TargetPatchNotLater ==
    Returned =>
        \A d \in dependencies :
            \A i \in PatchesOf(d.source), j \in PatchesOf(d.target) :
                /\ patches[j].id <= patches[i].id
                /\ (patches[j].id = patches[i].id) => (i = j)

\* C4: all change ids of every AtomicGroup that find_atomic_groups returned are in
\* one single output patch
C4_AtomicGroupInOnePatch ==
    Returned =>
        \A g \in DOMAIN atomic_groups :
            \E i \in DOMAIN patches :
                atomic_groups[g].change_ids \subseteq Range(patches[i].changes)

\* C5: after the renumbering the i-th returned patch has id i, so that the ids of
\* the N patches are exactly 0..N-1, on every path through the sort
C5_IdsAreDense ==
    Returned => \A i \in DOMAIN patches : patches[i].id = i - 1

\* C5 witness: patches renumbered after cycles were broken and on the best-effort
\* path
C5_Witness ==
    /\ Returned
    /\ sort_path = "best effort"
    /\ Len(patches) >= 3
    /\ \E i \in DOMAIN patches : patches[i].depends_on # << >>

\* C8: with max_patches an integer N at most N patches are returned
C8_AtMostMaxPatches ==
    Returned => (max_patches # << >> => Len(patches) <= max_patches[1])

\* the validation issues in the warnings of the result
IssueKinds == { warnings[k].kind : k \in DOMAIN warnings } \ {"suggestion"}

\* C10: the result of split_changes satisfies coverage, disjointness and dependency
\* ordering, or its warnings hold a validation issue that names the violation
C10_ViolationsAreReported ==
    pc = "done" =>
        /\ (\E id \in ChangeIds : PatchesOf(id) = {}) => "missing" \in IssueKinds
        /\ (\E id \in ChangeIds : Cardinality(PatchesOf(id)) > 1) => "duplicate" \in IssueKinds
        /\ ~C3_TargetPatchNotLater => "order" \in IssueKinds

\* C9: two runs of the pipeline on the same input return the same patches: the same
\* grouping, the same order of change ids in each patch, the same names and ids
C9_RunsAgree ==
    (pc = "done" /\ run = 2) => patches = first_patches

-----------------------------------------------------------------------------
(* Properties of the exported patch files *)

\* the hunks of the input diff and the hunks written to the patch files
InputHunks == Flatten([ f \in DOMAIN diff_text |-> diff_text[f].hunks ])

WrittenHunks ==
    Flatten([ i \in DOMAIN patch_files |->
                Flatten([ f \in DOMAIN patch_files[i].blocks |-> patch_files[i].blocks[f].hunks ]) ])

\* how often a digest occurs among the hunks
DigestCount(hunks, digest) ==
    Cardinality({ k \in DOMAIN hunks : calculate_hunk_digest(hunks[k]) = digest })

DigestsOf(hunks) == { calculate_hunk_digest(hunks[k]) : k \in DOMAIN hunks }

SameDigestMultiset ==
    \A digest \in DigestsOf(InputHunks) \cup DigestsOf(WrittenHunks) :
        DigestCount(InputHunks, digest) = DigestCount(WrittenHunks, digest)

\* C6: after split_changes and export_patches_to_files the multiset of the hunks
\* written to the patch files is the multiset of the hunks of the input diff
C6_HunksConserved ==
    pc = "exported" => SameDigestMultiset

\* C7: when the multiset of the digests of the written hunks differs from that of
\* the input hunks, _verify_hunk_integrity reports a missing or a spurious digest
C7_IntegrityCheckSeesMultisets ==
    (pc = "exported" /\ ~SameDigestMultiset) =>
        (integrity.input_only # {} \/ integrity.output_only # {})

-----------------------------------------------------------------------------
(* Properties of the LLM dependency enhancement *)

\* the enhancement failed: the call raised, the answer has an 'error' key, or an
\* entry of missing_dependencies is malformed
LlmFailed ==
    \/ llm_analysis.kind \in {"raises", "error"}
    \/ /\ llm_analysis.kind = "answer"
       /\ \E k \in DOMAIN llm_analysis.missing_dependencies :
            llm_analysis.missing_dependencies[k].malformed

\* C11: when the LLM dependency enhancement fails at any point, the dependencies
\* the rest of the pipeline uses are exactly those computed before the LLM call
C11_FailedEnhancementKeepsDependencies ==
    [][ (pc = "llm_dependencies" /\ LlmFailed) => dependencies' = dependencies ]_vars

\* C12: after the enhancement every dependency has a source and a target that are
\* ids of input Changes, and split_into_patches does not fail on an unknown id
C12_LlmDependenciesNameInputChanges ==
    pc # "llm_dependencies" =>
        /\ \A d \in dependencies : d.source \in ChangeIds /\ d.target \in ChangeIds
        /\ pc # "KeyError"

-----------------------------------------------------------------------------
(* Properties of cancellation *)

\* C13: once the cancel signal is raised the pipeline runs no further phase: the
\* next step of the run returns a result flagged as partial
C13_CancelStopsAtNextBoundary ==
    [][ cancel => (pc' = pc \/ pc' = "partial") ]_vars

-----------------------------------------------------------------------------
(* Properties of DependencyGraph *)

\* no change id reaches itself along the dependencies
AcyclicDependencies ==
    \A n \in GraphNodes : n \notin Closure(GraphEdges, Successors(GraphEdges, n))

\* C14: for an acyclic dependency graph, topological_sort returns an ordering of
\* the change ids in which the target of every dependency (the change depended
\* upon) stands before its source (the change that depends on it)
C14_TargetBeforeSource ==
    (pc \in {"sorted", Unfeasible} /\ AcyclicDependencies) =>
        /\ pc = "sorted"
        /\ Range(topological_order) = GraphNodes
        /\ \A d \in dependencies :
             IndexOf(topological_order, d.target) < IndexOf(topological_order, d.source)

\* the atomic groups of the list that hold both a and b
GroupsHolding(a, b) ==
    { i \in DOMAIN atomic_groups : {a, b} \subseteq atomic_groups[i].change_ids }

\* C15: for two changes a and b with a dependency a -> b and a dependency b -> a,
\* of any strength, find_atomic_groups returns exactly one AtomicGroup that holds
\* them, and that group holds both
C15_OneAtomicGroupForMutualPair ==
    pc = "phase4" =>
        \A d1, d2 \in dependencies :
            (d1.source = d2.target /\ d1.target = d2.source /\ d1.source # d1.target) =>
                /\ Cardinality(GroupsHolding(d1.source, d1.target)) = 1
                /\ \A i \in DOMAIN atomic_groups :
                     atomic_groups[i].change_ids \cap {d1.source, d1.target} # {} =>
                         i \in GroupsHolding(d1.source, d1.target)

-----------------------------------------------------------------------------
(* Properties of the patch dependencies *)

\* some change of patch p is the source of a dependency whose target is in patch q
HoldsSourceOf(p, q) ==
    \E d \in dependencies :
        d.source \in Range(p.changes) /\ d.target \in Range(q.changes)

\* C16: in the patches split_into_patches returns, patch P lists patch Q in
\* P.depends_on if and only if P and Q are different patches and some change of P
\* is the source of a dependency whose target is a change of Q
C16_DependsOnIffSourceToTarget ==
    Returned =>
        \A i, j \in DOMAIN patches :
            (patches[j].id \in Range(patches[i].depends_on))
                <=> (i # j /\ HoldsSourceOf(patches[i], patches[j]))

-----------------------------------------------------------------------------
(* Properties of resplit_patch *)

\* how often a hunk stands in the patch files of a directory
HunkCount(dir, h) ==
    SumSeq([ k \in 1..Cardinality(DOMAIN dir) |->
               LET f == (CHOOSE o \in Orderings(DOMAIN dir) : TRUE)[k]
               IN  Cardinality({ i \in DOMAIN dir[f] : dir[f][i] = h }) ])

AllHunks == { <<id, k>> : id \in 0..MaxPatchFiles, k \in 0..1 }

\* C17: resplit_patch leaves a directory whose patch files together hold the same
\* multiset of hunks as before: the files of the other patches are kept under
\* their shifted names, none is overwritten or lost, and the hunks of the patch
\* that was split again are all in the new patch files
C17_ResplitKeepsHunkMultiset ==
    [][ pc = "resplit" =>
          \A h \in AllHunks : HunkCount(patch_split_dir', h) = HunkCount(patch_split_dir, h) ]_vars

-----------------------------------------------------------------------------
(* Properties of parse_diff *)

\* parse_diff has returned
Parsed == pc = "phase2" /\ diff_text # << >>

\* << f, k >> for every '@@' hunk of the diff, in the order of the text: the hunk
\* is hunk k (from 0) of file block f
HunksOfDiff ==
    Flatten([ f \in DOMAIN diff_text |->
                [ k \in DOMAIN diff_text[f].hunks |-> << f, k - 1 >> ] ])

\* C18: for every file block of the diff the file path of its Changes is the
\* target-side path with exactly the leading 'b/' removed and, for a deleted file
\* (target /dev/null), the source-side path with the 'a/' removed: the path of the
\* block
C18_FilePathIsBlockPath ==
    Parsed =>
        /\ { changes[n].file : n \in DOMAIN changes }
              = { diff_text[f].path : f \in DOMAIN diff_text }
        /\ ~unidiff_fails =>
              /\ Len(changes) = Len(HunksOfDiff)
              /\ \A n \in DOMAIN changes :
                   changes[n].file = diff_text[HunksOfDiff[n][1]].path

\* C19: parse_diff emits exactly one Change for each '@@' hunk of the input, given
\* to the file of the block the hunk is in, with the id '<file>:hunk_<k>' where k
\* counts the hunks of the block from 0; with the unidiff parser and with the
\* fallback scanner
C19_OneChangePerHunk ==
    Parsed =>
        /\ Len(changes) = Len(HunksOfDiff)
        /\ \A n \in DOMAIN changes :
             /\ n \in DOMAIN HunksOfDiff
             /\ changes[n].content = diff_text[HunksOfDiff[n][1]].hunks[HunksOfDiff[n][2] + 1]
             /\ changes[n].id = << changes[n].file, "hunk", HunksOfDiff[n][2] >>
             /\ changes[n].file = IF unidiff_fails
                                  THEN Lstrip(<<"b">> \o diff_text[HunksOfDiff[n][1]].path, "b")
                                  ELSE FilePathOf(diff_text[HunksOfDiff[n][1]])

-----------------------------------------------------------------------------
(* Properties of the merging pass *)

\* C20: after the merging pass of split_into_patches no two changes that are in
\* different patches are non-separable: for every pair of changes c1, c2 of
\* different output patches can_changes_be_separated(c1, c2) is true
C20_DifferentPatchesAreSeparable ==
    Returned =>
        \A i, j \in DOMAIN patches :
            i # j =>
                \A c1 \in Range(patches[i].changes), c2 \in Range(patches[j].changes) :
                    c1 # c2 => can_changes_be_separated(c1, c2)

-----------------------------------------------------------------------------
(* Properties of can_changes_be_separated *)

\* there is a directed path of at most k dependency edges from u to v
RECURSIVE PathWithin(_, _, _)
PathWithin(u, v, k) ==
    \/ u = v
    \/ /\ k > 0
       /\ \E d \in dependencies : d.source = u /\ PathWithin(d.target, v, k - 1)

DirectedPath(u, v) == PathWithin(u, v, Cardinality(GraphNodes))

StrongBetween(a, b) ==
    \E d \in dependencies :
        /\ d.strength >= 100
        /\ \/ (d.source = a /\ d.target = b)
           \/ (d.source = b /\ d.target = a)

\* C21: in the graph split_into_patches is called with, for two change ids of
\* the graph can_changes_be_separated returns false
\* if and only if there is a directed path from each to the other or a dependency
\* of strength 1.0 between them in either direction, and the result is the same
\* for both orders of the arguments
C21_SeparableIffNoCycleNoStrongEdge ==
    pc = "phase4" =>
        \A a, b \in GraphNodes :
            a # b =>
                /\ ~can_changes_be_separated(a, b)
                      <=> ((DirectedPath(a, b) /\ DirectedPath(b, a)) \/ StrongBetween(a, b))
                /\ can_changes_be_separated(a, b) = can_changes_be_separated(b, a)

\* split_into_patches is about to call it on a graph with a pair on a cycle without a
\* 1.0 dependency, a pair with a one-way 1.0 dependency and a separable pair that
\* has a one-way path
C21_Witness ==
    /\ pc = "phase4"
    /\ \E a, b \in GraphNodes :
         a # b /\ DirectedPath(a, b) /\ DirectedPath(b, a) /\ ~StrongBetween(a, b)
           /\ ~can_changes_be_separated(a, b)
    /\ \E a, b \in GraphNodes :
         a # b /\ StrongBetween(a, b) /\ ~DirectedPath(b, a) /\ ~can_changes_be_separated(a, b)
    /\ \E a, b \in GraphNodes :
         a # b /\ DirectedPath(a, b) /\ can_changes_be_separated(a, b)

-----------------------------------------------------------------------------
(* Properties of DependencyGraph.topological_sort on a graph with cycles *)

\* the edges a list of the nodes does not respect: the head stands before the tail
EdgesNotRespected(order) ==
    { e \in GraphEdges : ~(IndexOf(order, e[1]) < IndexOf(order, e[2])) }

\* C22: on a dependency graph with cycles topological_sort does not raise: it
\* returns a list that holds every change id of the graph exactly once and
\* respects every edge but the ones removed, one for a cycle at most
C22_CyclicGraphIsSorted ==
    (pc \in {"sorted", Unfeasible} /\ ~AcyclicDependencies) =>
        /\ pc = "sorted"
        /\ Len(topological_order) = Cardinality(GraphNodes)
        /\ Range(topological_order) = GraphNodes
        /\ Cardinality(EdgesNotRespected(topological_order))
              <= Len(simple_cycles(GraphEdges, Ascending(GraphNodes)))

-----------------------------------------------------------------------------
(* Properties of find_atomic_groups *)

\* C23: find_atomic_groups puts two changes in the same atomic group only if each
\* is reachable from the other along the dependencies; a graph without a cycle,
\* such as a one-way chain A -> B -> C of 1.0 dependencies, gets no atomic group
C23_AtomicGroupsAreMutuallyReachable ==
    pc = "phase4" =>
        /\ \A i \in DOMAIN atomic_groups :
             \A a, b \in atomic_groups[i].change_ids :
                 DirectedPath(a, b) /\ DirectedPath(b, a)
        /\ AcyclicDependencies => atomic_groups = << >>

\* find_atomic_groups has run on a graph with the one-way chain 1 -> 2 -> 3 of 1.0
\* dependencies and the cycle 3 <-> 4: there are atomic groups, none with 1 or 2
C23_Witness ==
    /\ pc = "phase4"
    /\ {Dep(1, 2, 100), Dep(2, 3, 100), Dep(3, 4, 100), Dep(4, 3, 100)} \subseteq dependencies
    /\ ~DirectedPath(3, 1)
    /\ Len(atomic_groups) > 0
    /\ \A i \in DOMAIN atomic_groups : atomic_groups[i].change_ids \cap {1, 2} = {}

-----------------------------------------------------------------------------
(* Properties of validate_patches *)

\* C24: validate_patches returns is_valid = true (no issue) only if the union of
\* patch.changes over the patches equals the set of the input change ids
C24_ValidMeansExactCoverage ==
    (pc = "validated" /\ warnings = << >>) =>
        Range(AllPatchChanges(patches)) = ChangeIds


\* the changes of the patches given
ChangesOfPatches(ps) == UNION { Range(ps[i].changes) : i \in DOMAIN ps }

\* every target of a dependency whose source is in the patch is in one of the
\* applied patches or in the patch
TargetsApplied(patch, applied_patches) ==
    \A d \in dependencies :
        d.source \in Range(patch.changes) =>
            d.target \in ChangesOfPatches(applied_patches) \cup Range(patch.changes)

\* C25: validate_patch(patch, applied_patches) is valid exactly when every change
\* that a change of the patch depends on (the target of a dependency whose source
\* is in the patch) is in an applied patch or in the patch; and when the patches
\* returned by split_into_patches are applied in order, the patch graph being
\* acyclic, every patch validates
C25_ValidIffTargetsApplied ==
    Returned =>
        \A i \in DOMAIN patches :
            LET applied_patches == SubSeq(patches, 1, i - 1)
            IN  /\ (validate_patch(patches[i], applied_patches) = {})
                      <=> TargetsApplied(patches[i], applied_patches)
                /\ sort_path = "sorted" => validate_patch(patches[i], applied_patches) = {}
-----------------------------------------------------------------------------
(* phase5_validation.py: PatchOptimizer, called on the patches of split_changes *)

\* the loop of _split_large_patches from the patch at index i on
RECURSIVE SplitLargeFrom(_, _, _, _, _)
SplitLargeFrom(ps, chs, target_size, i, next_id) ==
    IF i > Len(ps) THEN << >>
    ELSE LET patch == ps[i]
         IN  IF patch.size_lines > target_size * 2 /\ Len(patch.changes) > 1
             THEN LET mid == Len(patch.changes) \div 2
                      patch1_changes == SubSeq(patch.changes, 1, mid)
                      patch2_changes == SubSeq(patch.changes, mid + 1, Len(patch.changes))
                      change_map == [ cid \in { chs[n].id : n \in DOMAIN chs } |->
                                        chs[Max({ n \in DOMAIN chs : chs[n].id = cid })] ]
                      size(cids) == SumSeq([ n \in DOMAIN cids |->
                                              change_map[cids[n]].added_lines
                                                + change_map[cids[n]].deleted_lines ])
                      patch1 == Patch(patch.id, << patch.name, "(part 1)" >>, patch.description,
                                      patch1_changes, patch.depends_on, size(patch1_changes), << >>)
                      patch2 == Patch(next_id, << patch.name, "(part 2)" >>, patch.description,
                                      patch2_changes, << patch.id >>, size(patch2_changes), << >>)
                  IN  << patch1, patch2 >> \o SplitLargeFrom(ps, chs, target_size, i + 1, next_id + 1)
             ELSE << patch >> \o SplitLargeFrom(ps, chs, target_size, i + 1, next_id)

\* _split_large_patches
split_large_patches(ps, chs, target_size) ==
    SplitLargeFrom(ps, chs, target_size, 1,
                   IF ps # << >> THEN Max({ ps[i].id : i \in DOMAIN ps }) + 1 ELSE 0)

optimize_patches(ps, chs, target_size) == split_large_patches(ps, chs, target_size)

\* patches = optimizer.optimize_patches(result.patches, changes, target_patch_size)
OptimizePatches ==
    /\ pc = "done"
    /\ patches' = optimize_patches(patches, changes, target_patch_size)
    /\ pc' = "optimized"
    /\ UNCHANGED << Env, Inputs, Exported, run, atomic_groups, patch_candidates, sort_path,
                    warnings, first_patches >>

NextOptimize ==
    \/ FindAtomicGroups
    \/ SplitIntoPatches
    \/ Validate
    \/ OptimizePatches

SpecOptimize == Init /\ [][NextOptimize]_vars

\* the number of times the patches list the change id
Occurrences(ps, id) ==
    Cardinality({ k \in DOMAIN AllPatchChanges(ps) : AllPatchChanges(ps)[k] = id })

\* every dependency between two patches has its target in the patch with the
\* smaller id
TargetsHaveSmallerIds(ps) ==
    \A d \in dependencies :
        \A i, j \in DOMAIN ps :
            (i # j /\ d.source \in Range(ps[i].changes) /\ d.target \in Range(ps[j].changes))
                => ps[j].id < ps[i].id

\* C26: optimize_patches keeps the invariants of its input: the output patches
\* list the same change ids as often as the input patches did (each once), and if
\* every dependency between two patches had its target in the patch with the
\* smaller id before the call, it has after the call, a patch larger than twice
\* the target size having been split into two halves
C26_OptimizeKeepsCoverageAndOrder ==
    [][ OptimizePatches =>
          /\ \A id \in ChangeIds : Occurrences(patches', id) = Occurrences(patches, id)
          /\ ChangesOfPatches(patches') = ChangesOfPatches(patches)
          /\ TargetsHaveSmallerIds(patches) => TargetsHaveSmallerIds(patches') ]_vars
-----------------------------------------------------------------------------
(* phase1_analysis.py: parse_diff on hunks of added, removed and context lines *)

\* the lines of a hunk: one or two lines, each added, removed or context
ContextHunkLines ==
    { << Line(m, "x", "") >> : m \in {"+", "-", " "} }
        \cup { << Line(m1, "x", ""), Line(m2, "y", "") >> : m1, m2 \in {"+", "-", " "} }

\* split_changes is called with the diff of one changed file of up to MaxHunks
\* hunks
InitHunks ==
    /\ pc = "phase1"
    /\ run = 1
    /\ \E n \in 1..MaxHunks : \E ls \in [1..n -> ContextHunkLines] :
         diff_text = << PatchedFile(DiffPaths[1], FALSE, [ k \in 1..n |-> Hunk(10 * k, ls[k]) ]) >>
    /\ changes = << >>
    /\ dependencies = {}
    /\ semantic_groups = << >>
    /\ target_patch_size \in TargetSizes
    /\ max_patches \in MaxPatchesChoices
    /\ atomic_groups = << >>
    /\ patch_candidates = << >>
    /\ patches = << >>
    /\ sort_path = None
    /\ warnings = << >>
    /\ first_patches = << >>
    /\ patch_files = << >>
    /\ integrity = NotVerified
    /\ llm_analysis = NoLlm
    /\ cancel = FALSE
    /\ topological_order = << >>
    /\ unidiff_fails \in BOOLEAN
    /\ patch_split_dir = << >>
    /\ metadata = << >>

SpecHunks == InitHunks /\ [][ParseDiff]_vars

\* C27: every Change has kind 'add' exactly when its removed count is 0 and its
\* added count is greater than 0, kind 'delete' exactly when its added count is 0
\* and its removed count is greater than 0, and kind 'modify' in every other
\* case, a hunk with neither added nor removed lines included; with the unidiff
\* parser and with the fallback parser
C27_KindFromCounts ==
    Parsed =>
        \A n \in DOMAIN changes :
            LET c == changes[n]
            IN  /\ c.added_lines = CountLines(c.content, "+")
                /\ c.deleted_lines = CountLines(c.content, "-")
                /\ c.type = "add" <=> (c.deleted_lines = 0 /\ c.added_lines > 0)
                /\ c.type = "delete" <=> (c.added_lines = 0 /\ c.deleted_lines > 0)
                /\ c.type = "modify" <=> ~(c.deleted_lines = 0 /\ c.added_lines > 0)
                                           /\ ~(c.added_lines = 0 /\ c.deleted_lines > 0)
-----------------------------------------------------------------------------
(* Properties of the metadata that resplit_patch writes *)

\* C28: after resplit_patch has replaced the patch with id k, at index k of the
\* metadata, by n new patches, the metadata lists the ids 0..N+n-2 each once,
\* every dependency of every patch is smaller than the id of the patch, and a
\* dependency of a new patch on the new patch with the id i in the re-split
\* result is recorded as k+i
C28_ResplitRenumbersDependencies ==
    [][ \A patch_index \in 0..(Len(metadata) - 1) :
          \A new_patches \in NewPatches(patch_split_dir[metadata[patch_index + 1].filename]) :
            (/\ pc = "resplit" /\ pc' = "resplit_done"
             /\ \E listing \in Orderings(DOMAIN patch_split_dir) :
                  ResplitWrites(patch_index, new_patches, listing))
            =>
              /\ [ i \in DOMAIN metadata' |-> metadata'[i].id ]
                    = [ i \in 1..(Len(metadata) + Len(new_patches) - 1) |-> i - 1 ]
              /\ \A i \in DOMAIN metadata' :
                   \A n \in DOMAIN metadata'[i].dependencies :
                      metadata'[i].dependencies[n] < metadata'[i].id
              /\ \A j \in DOMAIN new_patches :
                   metadata'[patch_index + j].dependencies
                      = [ n \in DOMAIN new_patches[j].dependencies |->
                            metadata[patch_index + 1].id + new_patches[j].dependencies[n] ]
      ]_vars
-----------------------------------------------------------------------------
(* Properties of the ids of the Changes *)

\* C29: the ids of the Changes that parse_diff returns are pairwise distinct, for
\* diffs that delete several files and for diffs handled by the fallback parser
\* too, so that the map {c.id: c for c in changes} has an entry for every Change
C29_ChangeIdsAreDistinct ==
    Parsed =>
        /\ \A m, n \in DOMAIN changes : m # n => changes[m].id # changes[n].id
        /\ Cardinality(ChangeIds) = Len(changes)
-----------------------------------------------------------------------------
(* Properties of the strongly connected components in the output *)

\* C30: all changes of one strongly connected component of the dependency graph
\* are in the same output patch of split_into_patches, also when the atomic group
\* of the component is oversized and was split into sibling groups, and when
\* new-feature mode split it by layer
C30_ComponentInOnePatch ==
    Returned =>
        \A component \in find_strongly_connected_components :
            component \subseteq ChangeIds =>
                \E i \in DOMAIN patches : component \subseteq Range(patches[i].changes)
=============================================================================
